---- MODULE Spec2Model ----
(***************************************************************************)
(* Model of packages/fxa-auth-server/error.js: the error wrapper           *)
(* errors.wrap and the constructors built on it, together with the parts   *)
(* of Hoek (applyToDefaults, merge) and Boom (the constructor and          *)
(* reformat) that wrap calls.                                              *)
(***************************************************************************)
EXTENDS Integers, Sequences, FiniteSets, TLC

VARIABLES clock, pc, op, srcObject, arg, result

vars == <<clock, pc, op, srcObject, arg, result>>

----------------------------------------------------------------------------
(* JavaScript values.  A value is a record of its type tag, its numeric   *)
(* content and its string content; Absent marks a property an object does  *)
(* not have.                                                               *)

JsVal(t, n, s) == [t |-> t, n |-> n, s |-> s]

Absent == JsVal("absent", 0, "")
Undefined == JsVal("undefined", 0, "")
Null == JsVal("null", 0, "")
Num(n) == JsVal("number", n, "")
NaN == JsVal("number", 0, "NaN")
Str(s) == JsVal("string", 0, s)
Bool(b) == JsVal("boolean", IF b THEN 1 ELSE 0, "")
ObjectValue == JsVal("object", 0, "[object Object]")

\* typeof v
TypeOf(v) ==
  CASE v.t \in {"absent", "undefined"} -> "undefined"
    [] v.t = "null" -> "object"
    [] OTHER -> v.t

\* ToBoolean(v), as in `v ? a : b` and `v || d`
Truthy(v) ==
  CASE v.t = "number" -> v.s # "NaN" /\ v.n # 0
    [] v.t = "string" -> v.s # ""
    [] v.t = "boolean" -> v.n = 1
    [] v.t = "object" -> TRUE
    [] OTHER -> FALSE

\* String(v), as in string concatenation and RegExp.prototype.test
JsToString(v) ==
  CASE v.t = "string" -> v.s
    [] v.t = "number" -> IF v.s = "NaN" THEN "NaN" ELSE ToString(v.n)
    [] v.t = "boolean" -> IF v.n = 1 THEN "true" ELSE "false"
    [] v.t = "null" -> "null"
    [] v.t = "object" -> "[object Object]"
    [] OTHER -> "undefined"

----------------------------------------------------------------------------
(* JavaScript objects: the own properties (props), the own properties that *)
(* are not enumerable (hidden; an Error instance hides its message), and a *)
(* tag t that is "object" for an object and "null" or "undefined" for the  *)
(* two values that have no properties.                                     *)

Fields == {"code", "errno", "message", "info", "error", "email", "param",
           "serverTime", "retryAfter", "stack"}

Empty == [k \in Fields |-> Absent]

Plain(props) == [t |-> "object", props |-> props, hidden |-> {}]
ErrorInstance(props) == [t |-> "object", props |-> props, hidden |-> {"message"}]
NullObject == [t |-> "null", props |-> Empty, hidden |-> {}]
UndefinedObject == [t |-> "undefined", props |-> Empty, hidden |-> {}]

hasOwnProperty(o, k) == o.props[k] # Absent

\* Object.keys(o): the own enumerable properties
ObjectKeys(o) == {k \in Fields : o.props[k] # Absent /\ k \notin o.hidden}

----------------------------------------------------------------------------
(* Hoek *)

\* Hoek.merge(target, source, isNullOverride): target's properties after the
\* merge.  A null or undefined source leaves target as it is.
HoekMerge(target, source, isNullOverride) ==
  IF source.t # "object" THEN target
  ELSE [k \in Fields |->
          IF k \notin ObjectKeys(source) THEN target[k]
          ELSE LET value == source.props[k] IN
               IF value.t = "object" THEN ObjectValue
               ELSE IF value.t \notin {"null", "undefined"} THEN value
               ELSE IF isNullOverride THEN value
               ELSE target[k]]

\* Hoek.applyToDefaults(defaults, options): null when options is falsy,
\* otherwise a copy of defaults with options merged in, null and undefined
\* values of options not overriding.
HoekApplyToDefaults(defaults, options) ==
  IF options.t # "object" THEN NullObject
  ELSE Plain(HoekMerge(defaults, options, FALSE))

\* Hoek.escapeHtml(s): the escaped form of s, kept symbolic
HoekEscapeHtml(v) == Str("html(" \o JsToString(v) \o ")")

----------------------------------------------------------------------------
(* Boom *)

\* Http.STATUS_CODES[code] || 'Unknown'
STATUS_CODES(code) ==
  CASE code = Num(400) -> Str("Bad Request")
    [] code = Num(401) -> Str("Unauthorized")
    [] code = Num(411) -> Str("Length Required")
    [] code = Num(413) -> Str("Request Entity Too Large")
    [] code = Num(429) -> Str("Too Many Requests")
    [] code = Num(500) -> Str("Internal Server Error")
    [] code = Num(503) -> Str("Service Unavailable")
    [] OTHER -> Str("Unknown")

\* The assertion of the Boom constructor on its first argument:
\* !isNaN(parseFloat(code)) && isFinite(code) && code >= 400
BoomCodeOk(code) == code.t = "number" /\ code.s # "NaN" /\ code.n >= 400

\* new Boom(code, message).response.payload after reformat()
BoomPayload(code, message) ==
  LET p == [Empty EXCEPT !["code"] = code, !["error"] = STATUS_CODES(code)]
  IN IF Truthy(message)
     THEN [p EXCEPT !["message"] = HoekEscapeHtml(message)]
     ELSE p

----------------------------------------------------------------------------
(* error.js *)

\* DEFAULTS with the info entry left out
DEFAULTS_WithoutInfo == [Empty EXCEPT !["message"] = Str("Unspecified error")]

DEFAULTS ==
  [Empty EXCEPT
     !["message"] = Str("Unspecified error"),
     !["info"] = Str("https://github.com/mozilla/fxa-auth-server/blob/master/docs/api.md#response-format")]

StartsWith(s, p) == Len(s) >= Len(p) /\ SubSeq(s, 1, Len(p)) = p

\* TOO_LARGE without its ^ anchor
TOO_LARGE_Unanchored(message) ==
  LET s == JsToString(message) IN
    \E i \in 1..Len(s) :
      \/ StartsWith(SubSeq(s, i, Len(s)), "Payload content length greater than maximum allowed")
      \/ StartsWith(SubSeq(s, i, Len(s)), "Payload size greater than maximum allowed")

\* TOO_LARGE.test(message)
TOO_LARGE(message) ==
  LET s == JsToString(message) IN
    \/ StartsWith(s, "Payload content length greater than maximum allowed")
    \/ StartsWith(s, "Payload size greater than maximum allowed")

\* What a call leaves behind: whether it threw, the response of the Boom it
\* returned, and the events it handed to log.error.
Raised(logs) ==
  [raised |-> TRUE, response |-> [code |-> Undefined, payload |-> Empty], logs |-> logs]
Returned(code, payload, logs) ==
  [raised |-> FALSE, response |-> [code |-> code, payload |-> payload], logs |-> logs]

LogEvent(object) == [op |-> "error.wrap", msg |-> "unexpected error", err |-> object]

RECURSIVE wrap(_)

invalidSignature(message) ==
  wrap(Plain([Empty EXCEPT
    !["code"] = Num(401),
    !["errno"] = Num(109),
    !["message"] = IF Truthy(message) THEN message ELSE Str("Invalid request signature")]))

invalidToken ==
  wrap(Plain([Empty EXCEPT
    !["code"] = Num(401),
    !["errno"] = Num(110),
    !["message"] = Str("Invalid authentication token in request signature")]))

invalidTimestamp ==
  wrap(Plain([Empty EXCEPT
    !["code"] = Num(401),
    !["errno"] = Num(111),
    !["message"] = Str("Invalid timestamp in request signature"),
    !["serverTime"] = Num(clock \div 1000)]))

invalidNonce ==
  wrap(Plain([Empty EXCEPT
    !["code"] = Num(401),
    !["errno"] = Num(115),
    !["message"] = Str("Invalid nonce in request signature")]))

requestBodyTooLarge ==
  wrap(Plain([Empty EXCEPT
    !["code"] = Num(413),
    !["errno"] = Num(113),
    !["message"] = Str("Request body too large")]))

\* Lines 42-63: the constructor call whose payload replaces the working
\* object (dispatched), or the working object kept as it is.
Kept == [dispatched |-> FALSE, call |-> Returned(Undefined, Empty, <<>>)]
Dispatch(call) == [dispatched |-> TRUE, call |-> call]

\* Intuit without the test of line 43 on errno
Intuit_IgnoringErrno(object) ==
  IF object["code"] = Num(401)
  THEN IF object["message"] = Str("Unknown credentials") THEN Dispatch(invalidToken)
       ELSE IF object["message"] = Str("Invalid credentials") THEN Dispatch(invalidToken)
       ELSE IF object["message"] = Str("Stale timestamp") THEN Dispatch(invalidTimestamp)
       ELSE IF object["message"] = Str("Invalid nonce") THEN Dispatch(invalidNonce)
       ELSE Dispatch(invalidSignature(object["message"]))
  ELSE IF object["code"] = Num(400)
  THEN IF TOO_LARGE(object["message"]) THEN Dispatch(requestBodyTooLarge) ELSE Kept
  ELSE Kept

Intuit(object) ==
  IF TypeOf(object["errno"]) = "undefined"
  THEN IF object["code"] = Num(401)
       THEN IF object["message"] = Str("Unknown credentials") THEN Dispatch(invalidToken)
            ELSE IF object["message"] = Str("Invalid credentials") THEN Dispatch(invalidToken)
            ELSE IF object["message"] = Str("Stale timestamp") THEN Dispatch(invalidTimestamp)
            ELSE IF object["message"] = Str("Invalid nonce") THEN Dispatch(invalidNonce)
            ELSE Dispatch(invalidSignature(object["message"]))
       ELSE IF object["code"] = Num(400)
       THEN IF TOO_LARGE(object["message"]) THEN Dispatch(requestBodyTooLarge) ELSE Kept
       ELSE Kept
  ELSE Kept

\* StatusCode with the two tests of lines 67 and 73 in the other order
StatusCode_NumberTestFirst(object) ==
  IF TypeOf(object["code"]) # "number"
  THEN [object EXCEPT !["code"] = Num(500)]
  ELSE object

\* Lines 65-75
StatusCode(object) ==
  IF TypeOf(object["code"]) = "undefined"
  THEN IF object["errno"] \in {Num(109), Num(110), Num(111)}
       THEN [object EXCEPT !["code"] = Num(401)]
       ELSE [object EXCEPT !["code"] = Num(400)]
  ELSE IF TypeOf(object["code"]) # "number"
  THEN [object EXCEPT !["code"] = Num(500)]
  ELSE object

\* Lines 77-82: the events handed to log.error, and the errno set after it
Unexpected(object) == TypeOf(object["errno"]) = "undefined"

\* Lines 84-87
Boomify(object, logs) ==
  IF ~BoomCodeOk(object["code"]) THEN Raised(logs)
  ELSE Returned(object["code"],
                HoekMerge(BoomPayload(object["code"], object["message"]),
                          Plain(object), TRUE),
                logs)

wrap(src) ==
  IF src.t # "object"
  THEN Raised(<<>>)
  ELSE
    LET merged == HoekApplyToDefaults(DEFAULTS, src).props
        withMessage == IF hasOwnProperty(src, "message")
                       THEN [merged EXCEPT !["message"] = src.props["message"]]
                       ELSE merged
        intuited == Intuit(withMessage)
    IN IF intuited.dispatched /\ intuited.call.raised
       THEN Raised(intuited.call.logs)
       ELSE
         LET object == IF intuited.dispatched
                       THEN intuited.call.response.payload
                       ELSE withMessage
             coded == StatusCode(object)
             logs == IF Unexpected(coded)
                     THEN Append(intuited.call.logs, LogEvent(coded))
                     ELSE intuited.call.logs
             final == IF Unexpected(coded)
                      THEN [coded EXCEPT !["errno"] = Num(999)]
                      ELSE coded
         IN Boomify(final, logs)

\* Helper functions for creating particular response types (lines 93-227)

accountExists(email) ==
  wrap(Plain([Empty EXCEPT
    !["code"] = Num(400),
    !["errno"] = Num(101),
    !["message"] = Str("Account already exists"),
    !["email"] = email]))

unknownAccount(email) ==
  wrap(Plain([Empty EXCEPT
    !["code"] = Num(400),
    !["errno"] = Num(102),
    !["message"] = Str("Unknown account"),
    !["email"] = email]))

incorrectPassword(email) ==
  wrap(Plain([Empty EXCEPT
    !["code"] = Num(400),
    !["errno"] = Num(103),
    !["message"] = Str("Incorrect password"),
    !["email"] = email]))

unverifiedAccount ==
  wrap(Plain([Empty EXCEPT
    !["code"] = Num(400),
    !["errno"] = Num(104),
    !["message"] = Str("Unverified account")]))

invalidVerificationCode(details) ==
  wrap(Plain(HoekMerge(
    [Empty EXCEPT
      !["code"] = Num(400),
      !["errno"] = Num(105),
      !["message"] = Str("Invalid verification code")],
    details, TRUE)))

invalidRequestBody ==
  wrap(Plain([Empty EXCEPT
    !["code"] = Num(400),
    !["errno"] = Num(106),
    !["message"] = Str("Invalid JSON in request body")]))

invalidRequestParameter(param) ==
  wrap(Plain([Empty EXCEPT
    !["code"] = Num(400),
    !["errno"] = Num(107),
    !["message"] = Str("Invalid parameter in request body"
                       \o (IF Truthy(param) THEN ": " \o JsToString(param) ELSE "")),
    !["param"] = param]))

missingRequestParameter(param) ==
  wrap(Plain([Empty EXCEPT
    !["code"] = Num(400),
    !["errno"] = Num(108),
    !["message"] = Str("Missing parameter in request body"
                       \o (IF Truthy(param) THEN ": " \o JsToString(param) ELSE "")),
    !["param"] = param]))

missingContentLength ==
  wrap(Plain([Empty EXCEPT
    !["code"] = Num(411),
    !["errno"] = Num(112),
    !["message"] = Str("Missing content-length header")]))

tooManyRequests ==
  wrap(Plain([Empty EXCEPT
    !["code"] = Num(429),
    !["errno"] = Num(114),
    !["message"] = Str("Client has sent too many requests"),
    !["retryAfter"] = Num(30)]))

serviceUnavailable ==
  wrap(Plain([Empty EXCEPT
    !["code"] = Num(503),
    !["errno"] = Num(201),
    !["message"] = Str("Service unavailable"),
    !["retryAfter"] = Num(30)]))

----------------------------------------------------------------------------
(* The values callers pass *)

MaxClock == 1000

Codes == {Absent, Undefined, Null, Num(0), Num(200), Num(400), Num(401), Num(413),
          Num(503), Num(1000), NaN, Str("weird"), Str("401"), Bool(FALSE), ObjectValue}

Errnos == {Absent, Undefined, Null, Num(0), Num(105), Num(109), Num(110), Num(111),
           Num(112), Num(113), Num(114), Num(115), Num(201), Num(999), Str("E")}

Texts == {Str(""),
          Str("Unknown credentials"),
          Str("Invalid credentials"),
          Str("Stale timestamp"),
          Str("Invalid nonce"),
          Str("Something else entirely"),
          Str("Payload content length greater than maximum allowed: 2048"),
          Str("Payload size greater than maximum allowed"),
          Str("payload size greater than maximum allowed"),
          Str("Error: Payload size greater than maximum allowed")}

Messages == {Absent, Undefined, Null} \cup Texts

OtherInfo == Str("https://example.org/errors")

Props(code, errno, message, info, stack) ==
  [Empty EXCEPT !["code"] = code, !["errno"] = errno, !["message"] = message,
                !["info"] = info, !["stack"] = stack]

\* Plain objects (with and without an info of their own), objects with an
\* unrelated field only, Error instances (whose message is not enumerable),
\* and the values that are no object.
RawErrors ==
     {Plain(Props(c, e, m, i, Absent)) :
        c \in Codes, e \in Errnos, m \in Messages, i \in {Absent, OtherInfo}}
  \cup
     {Plain(Props(Absent, Absent, Absent, Absent, Str("at wrap")))}
  \cup
     {ErrorInstance(Props(c, e, m, Absent, Str("at wrap"))) :
        c \in {Absent, Num(400), Num(401)}, e \in {Absent, Num(105)}, m \in Texts}
  \cup
     {NullObject, UndefinedObject}

Details ==
     {UndefinedObject, Plain(Empty)}
  \cup
     {Plain(Props(c, e, m, i, Absent)) :
        c \in {Absent, Num(401), Num(500), Str("weird")},
        e \in {Absent, Undefined, Num(101)},
        m \in {Absent, Str(""), Str("Expired code")},
        i \in {Absent, OtherInfo}}

Emails == {Undefined, Str("me@example.com")}

Params == {Undefined, Str(""), Str("uid")}

----------------------------------------------------------------------------
(* The state: the clock new Date() reads, and the caller: idle, or holding  *)
(* what its call on the errors object left behind (the operation, its      *)
(* argument, the outcome) until it has replied with it.                    *)

NoCall == Returned(Undefined, Empty, <<>>)

Init ==
  /\ clock = 0
  /\ pc = "idle"
  /\ op = "none"
  /\ srcObject = UndefinedObject
  /\ arg = Absent
  /\ result = NoCall

Call(name, src, a, r) ==
  /\ pc = "idle"
  /\ pc' = "returned"
  /\ op' = name
  /\ srcObject' = src
  /\ arg' = a
  /\ result' = r
  /\ UNCHANGED clock

\* The caller hands the outcome to the transport layer and is idle again.
Reply ==
  /\ pc = "returned"
  /\ pc' = "idle"
  /\ op' = "none"
  /\ srcObject' = UndefinedObject
  /\ arg' = Absent
  /\ result' = NoCall
  /\ UNCHANGED clock

Tick ==
  /\ clock + 500 <= MaxClock
  /\ clock' = clock + 500
  /\ UNCHANGED <<pc, op, srcObject, arg, result>>

Wrap == \E src \in RawErrors : Call("wrap", src, Absent, wrap(src))

AccountExists ==
  \E email \in Emails : Call("accountExists", UndefinedObject, email, accountExists(email))

UnknownAccount ==
  \E email \in Emails : Call("unknownAccount", UndefinedObject, email, unknownAccount(email))

IncorrectPassword ==
  \E email \in Emails :
    Call("incorrectPassword", UndefinedObject, email, incorrectPassword(email))

UnverifiedAccount ==
  Call("unverifiedAccount", UndefinedObject, Absent, unverifiedAccount)

InvalidVerificationCode ==
  \E details \in Details :
    Call("invalidVerificationCode", details, Absent, invalidVerificationCode(details))

InvalidRequestBody ==
  Call("invalidRequestBody", UndefinedObject, Absent, invalidRequestBody)

InvalidRequestParameter ==
  \E param \in Params :
    Call("invalidRequestParameter", UndefinedObject, param, invalidRequestParameter(param))

MissingRequestParameter ==
  \E param \in Params :
    Call("missingRequestParameter", UndefinedObject, param, missingRequestParameter(param))

InvalidSignature ==
  \E message \in {Undefined} \cup Texts :
    Call("invalidSignature", UndefinedObject, message, invalidSignature(message))

InvalidToken == Call("invalidToken", UndefinedObject, Absent, invalidToken)

InvalidTimestamp == Call("invalidTimestamp", UndefinedObject, Absent, invalidTimestamp)

InvalidNonce == Call("invalidNonce", UndefinedObject, Absent, invalidNonce)

MissingContentLength ==
  Call("missingContentLength", UndefinedObject, Absent, missingContentLength)

RequestBodyTooLarge ==
  Call("requestBodyTooLarge", UndefinedObject, Absent, requestBodyTooLarge)

TooManyRequests == Call("tooManyRequests", UndefinedObject, Absent, tooManyRequests)

ServiceUnavailable ==
  Call("serviceUnavailable", UndefinedObject, Absent, serviceUnavailable)

Next ==
  \/ Tick
  \/ Reply
  \/ Wrap
  \/ AccountExists
  \/ UnknownAccount
  \/ IncorrectPassword
  \/ UnverifiedAccount
  \/ InvalidVerificationCode
  \/ InvalidRequestBody
  \/ InvalidRequestParameter
  \/ MissingRequestParameter
  \/ InvalidSignature
  \/ InvalidToken
  \/ InvalidTimestamp
  \/ InvalidNonce
  \/ MissingContentLength
  \/ RequestBodyTooLarge
  \/ TooManyRequests
  \/ ServiceUnavailable

Spec == Init /\ [][Next]_vars

----------------------------------------------------------------------------
(* Vocabulary of the properties *)

Completed(name) == pc = "returned" /\ op = name /\ ~result.raised

Constructors ==
  {"accountExists", "unknownAccount", "incorrectPassword", "unverifiedAccount",
   "invalidVerificationCode", "invalidRequestBody", "invalidRequestParameter",
   "missingRequestParameter", "invalidSignature", "invalidToken", "invalidTimestamp",
   "invalidNonce", "missingContentLength", "requestBodyTooLarge", "tooManyRequests",
   "serviceUnavailable"}

IsInteger(v) == v.t = "number" /\ v.s # "NaN"

Out == result.response.payload
In == srcObject.props

\* A property of the input holds a value: it is there, and neither undefined
\* nor null.
Carries(k) == srcObject.t = "object" /\ In[k].t \notin {"absent", "undefined", "null"}

\* The message wrap works with: the input's own message when it has that
\* property, "Unspecified error" otherwise.
OriginalMessage == IF In["message"] = Absent THEN Str("Unspecified error") ELSE In["message"]

PayloadTooLargeText(m) ==
  /\ m.t = "string"
  /\ \/ StartsWith(m.s, "Payload content length greater than maximum allowed")
     \/ StartsWith(m.s, "Payload size greater than maximum allowed")

\* The input has no errno and one of the classifier's rules applies to it.
Classified ==
  /\ srcObject.t = "object"
  /\ ~Carries("errno")
  /\ \/ In["code"] = Num(401)
     \/ In["code"] = Num(400) /\ PayloadTooLargeText(OriginalMessage)

InfoUrl ==
  Str("https://github.com/mozilla/fxa-auth-server/blob/master/docs/api.md#response-format")

\* The Catalog: errno and default HTTP status of each constructor's kind
CatalogErrno(name) ==
  CASE name = "accountExists" -> 101
    [] name = "unknownAccount" -> 102
    [] name = "incorrectPassword" -> 103
    [] name = "unverifiedAccount" -> 104
    [] name = "invalidVerificationCode" -> 105
    [] name = "invalidRequestBody" -> 106
    [] name = "invalidRequestParameter" -> 107
    [] name = "missingRequestParameter" -> 108
    [] name = "invalidSignature" -> 109
    [] name = "invalidToken" -> 110
    [] name = "invalidTimestamp" -> 111
    [] name = "missingContentLength" -> 112
    [] name = "requestBodyTooLarge" -> 113
    [] name = "tooManyRequests" -> 114
    [] name = "invalidNonce" -> 115
    [] name = "serviceUnavailable" -> 201

CatalogStatus(errno) ==
  CASE errno \in {109, 110, 111, 115} -> 401
    [] errno = 112 -> 411
    [] errno = 113 -> 413
    [] errno = 114 -> 429
    [] errno = 201 -> 503
    [] OTHER -> 400

----------------------------------------------------------------------------
(* Properties *)

\* C1: wrap returns for every input, never raising, and the payload it
\* returns has an integer errno and an integer code.
C1_Totality ==
  (pc = "returned" /\ op = "wrap") =>
    /\ ~result.raised
    /\ IsInteger(Out["errno"])
    /\ IsInteger(Out["code"])

\* C2 as stated: for an input without errno, code 401 gives errno 110 for
\* "Unknown credentials" and "Invalid credentials", 111 for "Stale timestamp",
\* 115 for "Invalid nonce" and 109 with the original message text for every
\* other message, always with code 401; code 400 with a payload-size message
\* gives 113 with code 413; everything else gives errno 999.
C2_ClassifierAsStated ==
  (Completed("wrap") /\ ~Carries("errno")) =>
    IF In["code"] = Num(401)
    THEN /\ Out["code"] = Num(401)
         /\ CASE OriginalMessage \in {Str("Unknown credentials"), Str("Invalid credentials")} ->
                   Out["errno"] = Num(110)
              [] OriginalMessage = Str("Stale timestamp") -> Out["errno"] = Num(111)
              [] OriginalMessage = Str("Invalid nonce") -> Out["errno"] = Num(115)
              [] OTHER -> Out["errno"] = Num(109) /\ Out["message"] = OriginalMessage
    ELSE IF In["code"] = Num(400) /\ PayloadTooLargeText(OriginalMessage)
    THEN Out["errno"] = Num(113) /\ Out["code"] = Num(413)
    ELSE Out["errno"] = Num(999)

\* C2 as amended: as stated, except that under code 401 a message matching
\* none of the four texts is carried into the response only when it is not
\* empty; an empty, undefined or null message gives errno 109 with the
\* message "Invalid request signature".
C2_Classifier ==
  (Completed("wrap") /\ ~Carries("errno")) =>
    IF In["code"] = Num(401)
    THEN /\ Out["code"] = Num(401)
         /\ CASE OriginalMessage \in {Str("Unknown credentials"), Str("Invalid credentials")} ->
                   Out["errno"] = Num(110)
              [] OriginalMessage = Str("Stale timestamp") -> Out["errno"] = Num(111)
              [] OriginalMessage = Str("Invalid nonce") -> Out["errno"] = Num(115)
              [] OTHER ->
                   /\ Out["errno"] = Num(109)
                   /\ Out["message"] = IF OriginalMessage \in {Str(""), Undefined, Null}
                                       THEN Str("Invalid request signature")
                                       ELSE OriginalMessage
    ELSE IF In["code"] = Num(400) /\ PayloadTooLargeText(OriginalMessage)
    THEN Out["errno"] = Num(113) /\ Out["code"] = Num(413)
    ELSE Out["errno"] = Num(999)

\* C2 witness: a 401 without errno whose message matches none of the four
\* texts has come back as 109 carrying that message.
C2_Witness ==
  /\ Completed("wrap")
  /\ ~Carries("errno")
  /\ In["code"] = Num(401)
  /\ In["message"] = Str("Something else entirely")
  /\ Out["errno"] = Num(109)
  /\ Out["message"] = Str("Something else entirely")

\* C3: an input that carries an errno keeps it, whatever its code and
\* message, and keeps its own message: the classifier is bypassed.
C3_ErrnoPassthrough ==
  (Completed("wrap") /\ Carries("errno")) =>
    /\ Out["errno"] = In["errno"]
    /\ In["message"] # Absent => Out["message"] = In["message"]
    /\ Out["serverTime"] = Absent

\* C3 witness: an input with errno 105 that the 401 rules would match has
\* come back with errno 105 and its own message.
C3_Witness ==
  /\ Completed("wrap")
  /\ In["errno"] = Num(105)
  /\ In["code"] = Num(401)
  /\ In["message"] = Str("Unknown credentials")
  /\ Out["errno"] = Num(105)
  /\ Out["message"] = Str("Unknown credentials")

\* C4: every constructor returns the errno and the HTTP status of its
\* Catalog entry, whatever arguments it is given.
C4_ConstructorCatalog ==
  (pc = "returned" /\ op \in Constructors) =>
    /\ ~result.raised
    /\ Out["errno"] = Num(CatalogErrno(op))
    /\ Out["code"] = Num(CatalogStatus(CatalogErrno(op)))

\* C5: the code of every WireError wrap returns is a valid numeric HTTP
\* status, and it is 500 whenever the input's code is present and is not a
\* number, with or without an errno on the input.
C5_CodeSanitized ==
  Completed("wrap") =>
    /\ IsInteger(Out["code"]) /\ Out["code"].n >= 100 /\ Out["code"].n <= 599
    /\ In["code"].t \in {"string", "boolean", "null", "object"} => Out["code"] = Num(500)

\* C6 as stated: an input without errno that the classifier does not map
\* comes back with errno 999 and code 400.
C6_GenericAsStated ==
  (Completed("wrap") /\ ~Carries("errno") /\ ~Classified) =>
    Out["errno"] = Num(999) /\ Out["code"] = Num(400)

\* C6 as amended: an input without errno that the classifier does not map
\* comes back with errno 999; its code is 400 when the input carries no
\* code, 500 when the input's code is not a number, and the input's own
\* code when that is a number.
C6_Generic ==
  (Completed("wrap") /\ ~Carries("errno") /\ ~Classified) =>
    /\ Out["errno"] = Num(999)
    /\ Out["code"] = IF ~Carries("code") THEN Num(400)
                     ELSE IF In["code"].t # "number" THEN Num(500)
                     ELSE In["code"]

\* C6 witness: an input with code 503 and no errno has come back as 999
\* with code 503.
C6_Witness ==
  /\ Completed("wrap")
  /\ ~Carries("errno")
  /\ In["code"] = Num(503)
  /\ Out["errno"] = Num(999)
  /\ Out["code"] = Num(503)

\* C7: a call emits exactly one log event, with op "error.wrap" and msg
\* "unexpected error", when it is a call of wrap whose input has no errno
\* and is not mapped by the classifier; every other call of wrap and every
\* call of a constructor emits none.
C7_LogEmission ==
  pc = "returned" =>
    IF op = "wrap" /\ srcObject.t = "object" /\ ~Carries("errno") /\ ~Classified
    THEN /\ Len(result.logs) = 1
         /\ result.logs[1].op = "error.wrap"
         /\ result.logs[1].msg = "unexpected error"
    ELSE result.logs = <<>>

\* C8: the message of every WireError returned by wrap or by a constructor
\* is a non-empty string, and is "Unspecified error" when the input of wrap
\* has no message.
C8_MessageNonEmpty ==
  (pc = "returned" /\ ~result.raised) =>
    /\ Out["message"].t = "string" /\ Out["message"].s # ""
    /\ (op = "wrap" /\ In["message"] = Absent /\ ~Classified) =>
         Out["message"] = Str("Unspecified error")

\* C9 as stated: the info of every WireError returned by wrap or by a
\* constructor is the one documentation URL.
C9_InfoAsStated ==
  (pc = "returned" /\ ~result.raised) => Out["info"] = InfoUrl

\* C9 as amended: the info of a WireError is the one documentation URL
\* whenever the input of wrap, or the details given to
\* invalidVerificationCode, carries no info of its own, for every input of
\* wrap that is re-dispatched through the classifier, and for every other
\* constructor; an info carried by an input of wrap that is not
\* re-dispatched is returned in place of the URL.
C9_Info ==
  (pc = "returned" /\ ~result.raised) =>
    CASE op = "wrap" ->
           Out["info"] = IF Carries("info") /\ ~Classified THEN In["info"] ELSE InfoUrl
      [] op = "invalidVerificationCode" ->
           ~Carries("info") => Out["info"] = InfoUrl
      [] OTHER -> Out["info"] = InfoUrl

\* C9 witness: an input with an info of its own that the classifier
\* re-dispatched has come back with the documentation URL.
C9_Witness ==
  /\ Completed("wrap")
  /\ In["info"] = OtherInfo
  /\ Classified
  /\ Out["info"] = InfoUrl

\* C10: when the input of wrap has no code, errno 109, 110 or 111 gives
\* 401, an errno whose Catalog status is not 400 gives that status, and
\* every other errno, or none, gives 400.
C10_StatusDerivation ==
  (Completed("wrap") /\ In["code"] = Absent) =>
    Out["code"] = IF IsInteger(In["errno"]) THEN Num(CatalogStatus(In["errno"].n))
                  ELSE Num(400)

====
